---- MODULE Spec2Model ----
(***************************************************************************)
(* Model of crates/frame-buffer/src/lib.rs: the FrameBuffer ring of        *)
(* decoded-frame metadata (push_frame, get_frame_for_time, clear,          *)
(* start_playback, stop_playback, update_state, the clock queries) and     *)
(* the AVSync helper.                                                      *)
(*                                                                         *)
(* Times (f64 milliseconds in the source) are modelled as small finite     *)
(* integers: only their order and equality are used by the operations      *)
(* modelled here.  NaN and infinities are outside the model.  The          *)
(* FrameInfo fields width, height and is_keyframe are never read by the    *)
(* buffer and are left out of the record.  The u32 counters stay far       *)
(* below 2^32 within MaxDecoded pushes, so they are plain naturals.        *)
(***************************************************************************)
EXTENDS Integers, Sequences, FiniteSets, TLC

\* ---- bounds of the model -------------------------------------------------
MaxDecoded == 3          \* at most this many push_frame calls in a run
MaxPts == 2              \* pts_ms and query times range over 0..MaxPts
MaxStart == 1            \* start frames of start_playback: 0..MaxStart

\* constructor arguments: the degenerate capacities 0 and 1, a capacity that
\* fills within MaxDecoded pushes, and one whose low-water mark exceeds 1
Capacities == {0, 1, 2, 8}
FpsValues == {30}
Durations == {33}
PtsValues == 0..MaxPts
FrameNumbers == 0..(MaxDecoded - 1)
Handles == 0..(MaxDecoded - 1)
StartFrames == 0..MaxStart
WallTimes == {0}

\* AVSync inputs: the threshold and clock samples of tests::test_av_sync, the
\* samples that put the drift on and next to the threshold, a zero and a
\* negative threshold
\* clock inputs: start frames, and wall times on both sides of the anchor and
\* on both sides of a frame boundary at 30 fps
ClockFrames == {0, 5}
ClockTimes == {-100, -1, 0, 33, 34, 1000}

SyncThresholds == {-40, 0, 40}
SyncTimes == {0, 900, 960, 1000, 1040, 1100}

\* Option<T>: None is the empty sequence, Some(x) the one-element sequence
None == <<>>
Some(x) == <<x>>

\* FrameInfo values the decoder can hand to push_frame
FrameInfo == [frame_number : FrameNumbers, pts_ms : PtsValues,
              duration_ms : Durations, js_handle : Handles]

VARIABLES
  frames,                \* VecDeque<FrameInfo>, front is index 1
  capacity,
  target_size,
  low_water_mark,
  fps,
  stats,                 \* BufferStats
  last_displayed_frame,  \* Option<u32>
  playback_start_time,   \* Option<f64>
  playback_start_frame,
  \* observation of the call interface (not program state)
  op,                    \* the operation that produced this state
  query,                 \* Some(time argument) of the call, None without one
  ret,                   \* what that operation returned
  prev_returned,         \* frame_number of the latest successful take, reset
                         \* to None by start_playback and clear
  reported,              \* js handles handed back to the caller so far
  reported_twice,        \* some handle was handed back a second time
  unique_ok,             \* every push so far carried a frame_number not
                         \* then in the buffer
  recent_start,          \* start_frame of the latest start_playback call, 0
                         \* before the first
  released,              \* number of handles push_frame evictions and clear
                         \* have returned so far
  \* history of the take calls, kept by the specifications that track it
  pre_start,             \* Some(last_displayed_frame at the latest
                         \* start_playback) until a later take is asked a
                         \* time that is >= some buffered pts, None otherwise
  stale_first,           \* the latest take was that first take and returned
                         \* the frame_number displayed last before the
                         \* start_playback
  mono,                  \* [pts of the latest successful take, time of the
                         \* latest take], None when there is none since the
                         \* last clear / start_playback or a take since was
                         \* asked an earlier time than the one before it
  \* AVSync
  sync_threshold_ms,
  audio_time_ms,
  video_time_ms,
  drift_ms

vars == <<frames, capacity, target_size, low_water_mark, fps, stats,
          last_displayed_frame, playback_start_time, playback_start_frame,
          op, query, ret, prev_returned, reported, reported_twice,
          unique_ok, recent_start, released, pre_start, stale_first, mono,
          sync_threshold_ms, audio_time_ms, video_time_ms, drift_ms>>

config == <<capacity, target_size, low_water_mark, fps>>
avsync == <<sync_threshold_ms, audio_time_ms, video_time_ms, drift_ms>>
history == <<pre_start, stale_first, mono>>

\* ---- helpers --------------------------------------------------------------
RECURSIVE first_index(_, _, _)
\* Iterator::position / the front-popping loop: least index >= i whose
\* element satisfies the test, 0 when there is none
first_index(flags, i, n) ==
  IF i > n THEN 0
  ELSE IF flags[i] THEN i
  ELSE first_index(flags, i + 1, n)

pop_front(fs) == SubSeq(fs, 2, Len(fs))

\* VecDeque::insert at 1-based position pos
insert(fs, pos, frame) ==
  SubSeq(fs, 1, pos - 1) \o <<frame>> \o SubSeq(fs, pos, Len(fs))

\* ---- update_state ---------------------------------------------------------
\* variant: the low-water mark itself counts as Low
Mut_buffer_state(count, cap, lwm) ==
  IF count = 0 THEN "Starving"
  ELSE IF count <= lwm THEN "Low"
  ELSE IF count >= cap THEN "Full"
  ELSE "Healthy"

buffer_state(count, cap, lwm) ==
  IF count = 0 THEN "Starving"
  ELSE IF count < lwm THEN "Low"
  ELSE IF count >= cap THEN "Full"
  ELSE "Healthy"

buffer_duration(fs) ==
  IF Len(fs) > 0
  THEN fs[Len(fs)].pts_ms - fs[1].pts_ms + fs[Len(fs)].duration_ms
  ELSE 0

\* variant: frame_count is not refreshed
Mut_update_state(st, fs, cap, lwm) ==
  [st EXCEPT !.state = buffer_state(Len(fs), cap, lwm),
             !.buffer_duration_ms = buffer_duration(fs)]

update_state(st, fs, cap, lwm) ==
  [st EXCEPT !.frame_count = Len(fs),
             !.state = buffer_state(Len(fs), cap, lwm),
             !.buffer_duration_ms = buffer_duration(fs)]

\* ---- AVSync::new ----------------------------------------------------------
AVSync_new(threshold) ==
  /\ sync_threshold_ms = threshold
  /\ audio_time_ms = 0
  /\ video_time_ms = 0
  /\ drift_ms = 0

\* ---- FrameBuffer::new -----------------------------------------------------
FrameBuffer_new(cap, rate) ==
  /\ capacity = cap
  /\ fps = rate
  /\ frames = <<>>
  /\ target_size = (capacity * 3) \div 4
  /\ low_water_mark = capacity \div 4
  /\ stats = [frame_count |-> 0, capacity |-> capacity, frames_dropped |-> 0,
              frames_decoded |-> 0, frames_displayed |-> 0,
              state |-> "Starving", buffer_duration_ms |-> 0]
  /\ last_displayed_frame = None
  /\ playback_start_time = None
  /\ playback_start_frame = 0
  /\ op = "new"
  /\ query = None
  /\ ret = None
  /\ prev_returned = None
  /\ reported = {}
  /\ reported_twice = FALSE
  /\ unique_ok = TRUE
  /\ recent_start = 0
  /\ released = 0
  /\ pre_start = None
  /\ stale_first = FALSE
  /\ mono = None

\* a buffer of any of the capacities, next to an AVSync that is left alone
Init ==
  /\ \E cap \in Capacities, rate \in FpsValues : FrameBuffer_new(cap, rate)
  /\ AVSync_new(40)

\* ---- push_frame -----------------------------------------------------------
\* variant: the newest record's handle is handed back
Mut_push_evicted(fs, cap) ==
  IF Len(fs) >= cap
  THEN (IF Len(fs) > 0 THEN Some(fs[Len(fs)].js_handle) ELSE None)
  ELSE None

\* the handle push_frame returns
push_evicted(fs, cap) ==
  IF Len(fs) >= cap
  THEN (IF Len(fs) > 0 THEN Some(fs[1].js_handle) ELSE None)
  ELSE None

\* variant: nothing leaves the deque
Mut_push_kept(fs, cap) == fs

\* the deque after the eviction step
push_kept(fs, cap) ==
  IF Len(fs) >= cap THEN pop_front(fs) ELSE fs

\* variant: always append
Mut_insert_pos(fs, pts) == Len(fs) + 1

\* position of the first frame whose pts exceeds the new one, else the end
insert_pos(fs, pts) ==
  LET p == first_index([i \in 1..Len(fs) |-> fs[i].pts_ms > pts], 1, Len(fs))
  IN IF p = 0 THEN Len(fs) + 1 ELSE p

\* handing the handles hs back to the caller
report(rep, hs) == rep \cup {hs[i] : i \in 1..Len(hs)}
repeats(rep, hs) ==
  \/ \E i \in 1..Len(hs) : hs[i] \in rep
  \/ \E i, j \in 1..Len(hs) : i # j /\ hs[i] = hs[j]

push_frame(frame) ==
  /\ stats.frames_decoded < MaxDecoded
  /\ LET evicted == push_evicted(frames, capacity)
         kept == push_kept(frames, capacity)
         fs == insert(kept, insert_pos(kept, frame.pts_ms), frame)
         uniq == /\ unique_ok
                 /\ \A i \in 1..Len(frames) :
                      frames[i].frame_number # frame.frame_number
     IN /\ frames' = fs
        /\ stats' = update_state([stats EXCEPT !.frames_decoded = @ + 1],
                                 fs, capacity, low_water_mark)
        /\ ret' = evicted
        /\ unique_ok' = uniq
        /\ reported' = report(reported, evicted)
        /\ reported_twice' = (reported_twice \/ repeats(reported, evicted))
        /\ released' = released + Len(evicted)
  /\ op' = "push_frame"
  /\ query' = None
  /\ UNCHANGED <<config, avsync, last_displayed_frame, playback_start_time,
                 playback_start_frame, prev_returned, recent_start>>

\* ---- start_playback / stop_playback ----------------------------------------
\* variant: last_displayed_frame survives
Mut_start_playback(start_frame, current_time_ms) ==
  /\ playback_start_time' = Some(current_time_ms)
  /\ playback_start_frame' = start_frame
  /\ op' = "start_playback"
  /\ query' = None
  /\ ret' = None
  /\ prev_returned' = None
  /\ recent_start' = start_frame
  /\ UNCHANGED <<config, avsync, frames, stats, reported, reported_twice,
                 unique_ok, released, last_displayed_frame>>

start_playback(start_frame, current_time_ms) ==
  /\ playback_start_time' = Some(current_time_ms)
  /\ playback_start_frame' = start_frame
  /\ last_displayed_frame' = None
  /\ op' = "start_playback"
  /\ query' = None
  /\ ret' = None
  /\ prev_returned' = None
  /\ recent_start' = start_frame
  /\ UNCHANGED <<config, avsync, frames, stats, reported, reported_twice,
                 unique_ok, released>>

stop_playback ==
  /\ playback_start_time' = None
  /\ op' = "stop_playback"
  /\ query' = None
  /\ ret' = None
  /\ UNCHANGED <<config, avsync, frames, stats, last_displayed_frame,
                 playback_start_frame, prev_returned, reported, reported_twice,
                 unique_ok, recent_start, released>>

\* ---- get_frame_for_time -----------------------------------------------------
RECURSIVE scan_best(_, _, _, _, _)
\* the selection loop: best_idx/best_pts after visiting frames idx..Len(fs);
\* best_pts = None stands for f64::NEG_INFINITY
scan_best(fs, q, idx, best_i, best_pts) ==
  IF idx > Len(fs) THEN best_i
  ELSE IF /\ fs[idx].pts_ms <= q
          /\ (best_pts = None \/ fs[idx].pts_ms > best_pts[1])
       THEN scan_best(fs, q, idx + 1, Some(idx), Some(fs[idx].pts_ms))
       ELSE scan_best(fs, q, idx + 1, best_i, best_pts)

\* variant: the first record not after q instead of the latest
Mut_best_idx(fs, q) ==
  LET p == first_index([i \in 1..Len(fs) |-> fs[i].pts_ms <= q], 1, Len(fs))
  IN IF p = 0 THEN None ELSE Some(p)

best_idx(fs, q) == scan_best(fs, q, 1, None, None)

\* variant: no repeat suppression
Mut_is_repeat(last, frame) == FALSE

\* "Don't display the same frame twice"
is_repeat(last, frame) == last = Some(frame.frame_number)

\* the record get_frame_for_time returns
take_result(fs, last, q) ==
  IF Len(fs) = 0 THEN None
  ELSE LET b == best_idx(fs, q)
       IN IF b = None THEN None
          ELSE IF is_repeat(last, fs[b[1]]) THEN None
          ELSE Some(fs[b[1]])

\* index at which the front-popping loop stops: the first frame carrying the
\* selected frame's frame_number
take_stop(fs, frame) ==
  first_index([i \in 1..Len(fs) |-> fs[i].frame_number = frame.frame_number],
              1, Len(fs))

\* variant: the returned frame is counted as dropped too
Mut_take_dropped(fs, frame) == take_stop(fs, frame)

\* frames popped by the loop, each counted as dropped
take_dropped(fs, frame) == take_stop(fs, frame) - 1

\* variant: the returned frame is not popped
Mut_take_kept(fs, frame) == SubSeq(fs, take_stop(fs, frame), Len(fs))

\* the deque after the loop and the final pop_front
take_kept(fs, frame) == SubSeq(fs, take_stop(fs, frame) + 1, Len(fs))

\* variant: older frames are popped before the repeat check
Mut_take_frames(fs, last, q) ==
  LET r == take_result(fs, last, q)
      b == best_idx(fs, q)
  IN IF r # None THEN take_kept(fs, r[1])
     ELSE IF Len(fs) = 0 \/ b = None THEN fs
     ELSE SubSeq(fs, take_stop(fs, fs[b[1]]), Len(fs))

\* the deque get_frame_for_time leaves: untouched on every early return
take_frames(fs, last, q) ==
  LET r == take_result(fs, last, q)
  IN IF r = None THEN fs ELSE take_kept(fs, r[1])

get_frame_for_time(current_time_ms) ==
  LET r == take_result(frames, last_displayed_frame, current_time_ms)
  IN /\ op' = "get_frame_for_time"
     /\ query' = Some(current_time_ms)
     /\ ret' = r
     /\ frames' = take_frames(frames, last_displayed_frame, current_time_ms)
     /\ IF r = None
        THEN UNCHANGED <<config, avsync, stats, last_displayed_frame,
                         playback_start_time, playback_start_frame,
                         prev_returned, reported, reported_twice,
                         unique_ok, recent_start, released>>
        ELSE LET frame == r[1]
                 fs == take_kept(frames, frame)
             IN /\ last_displayed_frame' = Some(frame.frame_number)
                /\ stats' = update_state(
                     [stats EXCEPT
                        !.frames_dropped = @ + take_dropped(frames, frame),
                        !.frames_displayed = @ + 1],
                     fs, capacity, low_water_mark)
                /\ prev_returned' = Some(frame.frame_number)
                /\ reported' = report(reported, <<frame.js_handle>>)
                /\ reported_twice' =
                     (reported_twice \/ repeats(reported, <<frame.js_handle>>))
                /\ UNCHANGED <<config, avsync, playback_start_time,
                               playback_start_frame, unique_ok, recent_start,
                               released>>

\* ---- clear --------------------------------------------------------------------
\* variant: the front record's handle is not collected
Mut_clear_handles(fs) == [i \in 1..(Len(fs) - 1) |-> fs[i + 1].js_handle]

clear_handles(fs) == [i \in 1..Len(fs) |-> fs[i].js_handle]

clear ==
  /\ frames' = <<>>
  /\ last_displayed_frame' = None
  /\ stats' = update_state(stats, <<>>, capacity, low_water_mark)
  /\ op' = "clear"
  /\ query' = None
  /\ ret' = clear_handles(frames)
  /\ prev_returned' = None
  /\ reported' = report(reported, clear_handles(frames))
  /\ reported_twice' =
       (reported_twice \/ repeats(reported, clear_handles(frames)))
  /\ released' = released + Len(clear_handles(frames))
  /\ UNCHANGED <<config, avsync, playback_start_time, playback_start_frame,
                 unique_ok, recent_start>>

\* ---- clock queries ---------------------------------------------------------------
buffer_vars == <<config, frames, stats, last_displayed_frame,
                 playback_start_time, playback_start_frame, prev_returned,
                 reported, reported_twice, unique_ok, recent_start, released,
                 history>>

\* f64 values that are not whole milliseconds are kept as a fraction
\* <<numerator, denominator>>; rounding of the f64 arithmetic is not modelled
get_presentation_time_value(current_time_ms) ==
  IF playback_start_time # None
  THEN LET elapsed == current_time_ms - playback_start_time[1]
       IN <<playback_start_frame * 1000 + elapsed * fps, fps>>
  ELSE <<0, 1>>

\* f64 as u32: saturating, a negative value becomes 0 (the clock inputs stay
\* far below u32::MAX, where the cast saturates as well)
as_u32(x) == IF x < 0 THEN 0 ELSE x

\* variant: the elapsed frames are rounded up
Mut_get_target_frame_value(current_time_ms) ==
  IF playback_start_time # None
  THEN LET elapsed == current_time_ms - playback_start_time[1]
       IN playback_start_frame + as_u32((elapsed * fps + 999) \div 1000)
  ELSE playback_start_frame

\* (elapsed * fps / 1000.0).floor() is \div, which rounds down
get_target_frame_value(current_time_ms) ==
  IF playback_start_time # None
  THEN LET elapsed == current_time_ms - playback_start_time[1]
       IN playback_start_frame + as_u32((elapsed * fps) \div 1000)
  ELSE playback_start_frame

\* variant: an empty buffer answers 0
Mut_get_next_decode_frame_value ==
  IF Len(frames) > 0 THEN frames[Len(frames)].frame_number + 1 ELSE 0

get_next_decode_frame_value ==
  IF Len(frames) > 0
  THEN frames[Len(frames)].frame_number + 1
  ELSE playback_start_frame

needs_frames_value == Len(frames) < target_size

is_full_value == Len(frames) >= capacity

get_presentation_time(current_time_ms) ==
  /\ op' = "get_presentation_time"
  /\ query' = Some(current_time_ms)
  /\ ret' = Some(get_presentation_time_value(current_time_ms))
  /\ UNCHANGED <<buffer_vars, avsync>>

get_target_frame(current_time_ms) ==
  /\ op' = "get_target_frame"
  /\ query' = Some(current_time_ms)
  /\ ret' = Some(get_target_frame_value(current_time_ms))
  /\ UNCHANGED <<buffer_vars, avsync>>

get_next_decode_frame ==
  /\ op' = "get_next_decode_frame"
  /\ query' = None
  /\ ret' = Some(get_next_decode_frame_value)
  /\ UNCHANGED <<buffer_vars, avsync>>

\* ---- the calls a host can make -------------------------------------------------
\* The host stores every decoded frame under a fresh handle and the decoder
\* numbers frames in decode order: the k-th push (k = 0, 1, ...) carries
\* handle k and frame number k, or repeats frame number 0 (a re-decode of
\* the first frame).  The presentation time is free, so frames can arrive
\* out of presentation order.
PushInputs ==
  {f \in FrameInfo : /\ f.js_handle = stats.frames_decoded
                     /\ f.frame_number \in {0, stats.frames_decoded}}

\* the take history is not kept
Untracked == UNCHANGED history

Next ==
  \/ \E frame \in PushInputs : push_frame(frame) /\ Untracked
  \/ \E q \in PtsValues : get_frame_for_time(q) /\ Untracked
  \/ clear /\ Untracked
  \/ \E f \in StartFrames, t \in WallTimes : start_playback(f, t) /\ Untracked
  \/ stop_playback /\ Untracked

Spec == Init /\ [][Next]_vars

\* ---- takes after start_playback ------------------------------------------------
\* this step is a take asked a time that is >= the pts of a buffered frame
AskedBuffered ==
  /\ op' = "get_frame_for_time"
  /\ \E i \in 1..Len(frames) : frames[i].pts_ms <= query'[1]

\* keeps pre_start and stale_first for the step just taken
StartTracked ==
  /\ pre_start' = IF op' = "start_playback" THEN Some(last_displayed_frame)
                  ELSE IF AskedBuffered THEN None
                  ELSE pre_start
  /\ stale_first' = /\ AskedBuffered
                    /\ pre_start # None
                    /\ ret' # None
                    /\ pre_start[1] = Some(ret'[1].frame_number)
  /\ UNCHANGED mono

StartNext ==
  \/ \E frame \in PushInputs : push_frame(frame) /\ StartTracked
  \/ \E q \in PtsValues : get_frame_for_time(q) /\ StartTracked
  \/ clear /\ StartTracked
  \/ \E f \in StartFrames, t \in WallTimes :
       start_playback(f, t) /\ StartTracked
  \/ stop_playback /\ StartTracked

StartSpec == Init /\ [][StartNext]_vars

\* ---- takes at non-decreasing times ------------------------------------------------
\* the time q is not earlier than the time of the take before it
MonoAsked(q) == IF mono = None THEN TRUE ELSE q >= mono[1].time

\* keeps mono for the step just taken
MonoTracked ==
  /\ mono' =
       IF op' \in {"clear", "start_playback"} THEN None
       ELSE IF op' = "get_frame_for_time"
       THEN Some([time |-> query'[1],
                  pts |-> IF ret' # None THEN Some(ret'[1].pts_ms)
                          ELSE IF mono = None THEN None
                          ELSE mono[1].pts])
       ELSE mono
  /\ UNCHANGED <<pre_start, stale_first>>

MonoNext ==
  \/ \E frame \in PushInputs : push_frame(frame) /\ MonoTracked
  \/ \E q \in PtsValues :
       MonoAsked(q) /\ get_frame_for_time(q) /\ MonoTracked
  \/ clear /\ MonoTracked
  \/ \E f \in StartFrames, t \in WallTimes :
       start_playback(f, t) /\ MonoTracked
  \/ stop_playback /\ MonoTracked

MonoSpec == Init /\ [][MonoNext]_vars

\* ---- the playback clock ----------------------------------------------------------
\* a buffer whose clock is anchored, released and asked at the clock inputs
ClockInit ==
  /\ FrameBuffer_new(10, 30)
  /\ AVSync_new(40)

\* frames arrive in presentation order, numbered in decode order
ClockPushInputs ==
  {f \in PushInputs : /\ f.frame_number = stats.frames_decoded
                      /\ f.pts_ms = IF stats.frames_decoded < MaxPts
                                    THEN stats.frames_decoded ELSE MaxPts}

ClockNext ==
  \/ \E f \in ClockFrames, t \in ClockTimes : start_playback(f, t) /\ Untracked
  \/ stop_playback /\ Untracked
  \/ \E w \in ClockTimes : get_presentation_time(w)
  \/ \E w \in ClockTimes : get_target_frame(w)
  \/ get_next_decode_frame
  \/ \E frame \in ClockPushInputs : push_frame(frame) /\ Untracked
  \/ \E q \in PtsValues : get_frame_for_time(q) /\ Untracked
  \/ clear /\ Untracked

ClockSpec == ClockInit /\ [][ClockNext]_vars

\* ---- AVSync ------------------------------------------------------------------
set_audio_time(time_ms) ==
  /\ audio_time_ms' = time_ms
  /\ drift_ms' = video_time_ms - time_ms
  /\ op' = "set_audio_time"
  /\ query' = Some(time_ms)
  /\ ret' = None
  /\ UNCHANGED <<buffer_vars, sync_threshold_ms, video_time_ms>>

set_video_time(time_ms) ==
  /\ video_time_ms' = time_ms
  /\ drift_ms' = time_ms - audio_time_ms
  /\ op' = "set_video_time"
  /\ query' = Some(time_ms)
  /\ ret' = None
  /\ UNCHANGED <<buffer_vars, sync_threshold_ms, audio_time_ms>>

\* f64::abs
abs(x) == IF x < 0 THEN -x ELSE x

\* variant: the boundary is not synced
Mut_is_synced_value(drift, threshold) == abs(drift) < threshold

is_synced_value(drift, threshold) == abs(drift) <= threshold

\* variant: the boundary already waits or drops
Mut_get_sync_action_value(drift, threshold) ==
  IF drift >= threshold THEN 1
  ELSE IF drift <= -threshold THEN -1
  ELSE 0

get_sync_action_value(drift, threshold) ==
  IF drift > threshold THEN 1
  ELSE IF drift < -threshold THEN -1
  ELSE 0

is_synced ==
  /\ op' = "is_synced"
  /\ query' = None
  /\ ret' = Some(is_synced_value(drift_ms, sync_threshold_ms))
  /\ UNCHANGED <<buffer_vars, avsync>>

get_sync_action ==
  /\ op' = "get_sync_action"
  /\ query' = None
  /\ ret' = Some(get_sync_action_value(drift_ms, sync_threshold_ms))
  /\ UNCHANGED <<buffer_vars, avsync>>

\* variant: the drift is left standing
Mut_reset ==
  /\ audio_time_ms' = 0
  /\ video_time_ms' = 0
  /\ op' = "reset"
  /\ query' = None
  /\ ret' = None
  /\ UNCHANGED <<buffer_vars, sync_threshold_ms, drift_ms>>

reset ==
  /\ audio_time_ms' = 0
  /\ video_time_ms' = 0
  /\ drift_ms' = 0
  /\ op' = "reset"
  /\ query' = None
  /\ ret' = None
  /\ UNCHANGED <<buffer_vars, sync_threshold_ms>>

\* an AVSync of any of the thresholds, next to a buffer that is left alone
SyncInit ==
  /\ FrameBuffer_new(10, 30)
  /\ \E threshold \in SyncThresholds : AVSync_new(threshold)

SyncNext ==
  \/ \E t \in SyncTimes : set_audio_time(t)
  \/ \E t \in SyncTimes : set_video_time(t)
  \/ is_synced
  \/ get_sync_action
  \/ reset

SyncSpec == SyncInit /\ [][SyncNext]_vars

\* ==== properties ==============================================================
BufferedPts(fs) == {fs[i].pts_ms : i \in 1..Len(fs)}
BufferedHandles(fs) == {fs[i].js_handle : i \in 1..Len(fs)}
RemoveAt(fs, i) == SubSeq(fs, 1, i - 1) \o SubSeq(fs, i + 1, Len(fs))
UniqueNumbers(fs) ==
  \A i, j \in 1..Len(fs) : i # j => fs[i].frame_number # fs[j].frame_number

\* C1: in every reachable state the buffered records are in non-decreasing
\* order of pts_ms from front to back.
C1_SortedByPts ==
  \A i \in 1..(Len(frames) - 1) : frames[i].pts_ms <= frames[i + 1].pts_ms

\* a push that evicted and whose record arrived out of presentation order:
\* the later-pushed record (larger handle) sits in front of an earlier one
C1_Witness ==
  /\ op = "push_frame" /\ ret # None /\ unique_ok
  /\ Len(frames) >= 2
  /\ frames[1].js_handle > frames[2].js_handle
  /\ frames[1].pts_ms < frames[2].pts_ms

\* what a push does to the deque: one record with the least pts leaves and
\* its handle is returned (evicting), or nothing leaves and nothing is returned
PushEvictsOldest ==
  \E i \in 1..Len(frames) :
    /\ \A p \in BufferedPts(frames) : frames[i].pts_ms <= p
    /\ ret' = Some(frames[i].js_handle)
    /\ \E j \in 1..Len(frames') : RemoveAt(frames', j) = RemoveAt(frames, i)
PushEvictsNothing ==
  /\ ret' = None
  /\ \E j \in 1..Len(frames') : RemoveAt(frames', j) = frames

C3_LatestNotAfter ==
  [][op' = "get_frame_for_time" =>
       /\ ret' # None =>
            /\ \E i \in 1..Len(frames) : frames[i] = ret'[1]
            /\ ret'[1].pts_ms <= query'[1]
            /\ \A p \in BufferedPts(frames) :
                 p <= query'[1] => p <= ret'[1].pts_ms
       /\ (\A p \in BufferedPts(frames) : p > query'[1]) => ret' = None]_vars

\* a take that chose the middle one of three records
C3_Witness ==
  /\ op = "get_frame_for_time" /\ ret # None
  /\ stats.frames_dropped = 1 /\ stats.frames_displayed = 1
  /\ Len(frames) = 1
  /\ ret[1].pts_ms <= query[1] /\ frames[1].pts_ms > query[1]

\* the effect of a successful take whose selected record sits at position k
TakeEffect(k) ==
  /\ frames[k] = ret'[1]
  /\ frames[k].pts_ms <= query'[1]
  /\ \A p \in BufferedPts(frames) : p <= query'[1] => p <= frames[k].pts_ms
  /\ frames' = SubSeq(frames, k + 1, Len(frames))
  /\ stats'.frames_dropped = stats.frames_dropped + (k - 1)
  /\ stats'.frames_displayed = stats.frames_displayed + 1
  /\ last_displayed_frame' = Some(ret'[1].frame_number)

\* C4 as stated: a successful take removes the records before the selected
\* one and the selected one and nothing else, adds their number to
\* frames_dropped, adds 1 to frames_displayed and sets last_displayed_frame.
C4_Original ==
  [][op' = "get_frame_for_time" /\ ret' # None =>
       \E k \in 1..Len(frames) : TakeEffect(k)]_vars

\* C4 amended: the same, for a take from a buffer whose records carry
\* pairwise distinct frame numbers.
C4_TakeEffect ==
  [][op' = "get_frame_for_time" /\ ret' # None /\ UniqueNumbers(frames) =>
       \E k \in 1..Len(frames) : TakeEffect(k)]_vars

\* frames 0,1,2 in order, take at the second one's time: frame 1 returned,
\* frame 0 dropped, frame 2 still buffered
C4_Witness ==
  /\ op = "get_frame_for_time" /\ ret # None
  /\ ret[1].frame_number = 1 /\ ret[1].pts_ms = 1 /\ query = Some(1)
  /\ stats.frames_dropped = 1 /\ stats.frames_displayed = 1
  /\ Len(frames) = 1 /\ frames[1].frame_number = 2
  /\ last_displayed_frame = Some(1)
  /\ playback_start_time = Some(0) /\ playback_start_frame = 0

\* C5: a take never returns the frame_number returned by the immediately
\* preceding successful take, unless start_playback or clear came between.
C5_NoRepeat ==
  [][op' = "get_frame_for_time" /\ ret' # None /\ prev_returned # None =>
       ret'[1].frame_number # prev_returned[1]]_vars

\* the frame number of the last returned record was pushed again and the
\* take that selected it returned nothing
C5_Witness ==
  /\ op = "get_frame_for_time" /\ ret = None /\ prev_returned # None
  /\ best_idx(frames, query[1]) # None
  /\ frames[best_idx(frames, query[1])[1]].frame_number = prev_returned[1]

\* C6: a take that returns nothing leaves the records, the statistics,
\* last_displayed_frame and the playback anchor as they were.
C6_NoneUnchanged ==
  [][op' = "get_frame_for_time" /\ ret' = None =>
       UNCHANGED <<frames, stats, last_displayed_frame, playback_start_time,
                   playback_start_frame>>]_vars

\* a suppressed record is still at the front of the queue after the call
C6_Witness ==
  /\ op = "get_frame_for_time" /\ ret = None
  /\ stats.frames_displayed >= 1 /\ Len(frames) >= 1
  /\ frames[1].pts_ms <= query[1]
  /\ last_displayed_frame = Some(frames[Len(frames)].frame_number)

\* C7: handles are distinct (PushInputs); while every push carried a frame
\* number not then buffered, no handle has been handed back more than once (by push, clear
\* or a returned record) and a handle handed back is no longer buffered.
C7_ReportedOnce ==
  unique_ok =>
    /\ ~reported_twice
    /\ reported \cap BufferedHandles(frames) = {}

\* three distinct handles pushed, two handed back, one still buffered
C7_Witness ==
  /\ unique_ok /\ stats.frames_decoded = 3
  /\ Cardinality(reported) = 2 /\ ~reported_twice
  /\ Len(frames) = 1

\* C8: clear returns the handles of the records buffered before the call,
\* in order, and leaves occupancy 0, frame_count 0, state Starving and
\* last_displayed_frame None.
C8_ClearRoundTrip ==
  [][op' = "clear" =>
       /\ ret' = [i \in 1..Len(frames) |-> frames[i].js_handle]
       /\ Len(frames') = 0
       /\ stats'.frame_count = 0
       /\ stats'.state = "Starving"
       /\ last_displayed_frame' = None]_vars

\* a clear that handed back three handles after a frame had been displayed
C8_Witness ==
  /\ op = "clear" /\ Len(ret) >= 2
  /\ ret[1] # ret[2]
  /\ Len(frames) = 0 /\ last_displayed_frame = None

\* C9 as stated: the four cases, each binding on its own.
C9_Original ==
  LET n == Len(frames)
      C == capacity
      L == capacity \div 4
  IN /\ n = 0 => stats.state = "Starving"
     /\ (0 < n /\ n < L) => stats.state = "Low"
     /\ (L <= n /\ n < C) => stats.state = "Healthy"
     /\ n >= C => stats.state = "Full"

\* C9 amended: n = 0 -> Starving, and for n > 0: n < L -> Low,
\* L <= n < C -> Healthy, n >= C -> Full.
C9_StateOfOccupancy ==
  LET n == Len(frames)
      C == capacity
      L == capacity \div 4
  IN /\ n = 0 => stats.state = "Starving"
     /\ (0 < n /\ n < L) => stats.state = "Low"
     /\ (0 < n /\ L <= n /\ n < C) => stats.state = "Healthy"
     /\ (0 < n /\ n >= C) => stats.state = "Full"

\* one record in the large buffer: below the low-water mark
C9_Witness ==
  /\ Len(frames) = 1 /\ capacity \div 4 > 1 /\ stats.state = "Low"

\* C10: frame_count equals the number of buffered records in every
\* reachable state.
C10_FrameCount == stats.frame_count = Len(frames)

\* a take that removed two of three records
C10_Witness ==
  /\ op = "get_frame_for_time" /\ ret # None
  /\ stats.frames_decoded = 3 /\ stats.frames_dropped = 1
  /\ stats.frame_count = 1 /\ Len(frames) = 1

\* ---- C11 (SyncSpec) ---------------------------------------------------------
\* What the claim says of one drift and threshold: the action is Wait (1)
\* exactly when drift > threshold, Drop (-1) exactly when drift < -threshold
\* and Display (0) otherwise; is_synced is |drift| <= threshold; a drift of
\* +threshold or -threshold is synced and displayed; synced is the same as
\* Display. The returned values are the ones the calls delivered.
SyncClassified ==
  LET d == drift_ms
      t == sync_threshold_ms
      synced == is_synced_value(d, t)
      action == get_sync_action_value(d, t)
  IN /\ op = "get_sync_action" =>
          /\ ret[1] = 1 <=> d > t
          /\ ret[1] = -1 <=> d < -t
          /\ ret[1] = 0 <=> ~(d > t) /\ ~(d < -t)
     /\ op = "is_synced" => (ret[1] <=> abs(d) <= t)
     /\ (d = t \/ d = -t) => synced /\ action = 0
     /\ synced <=> action = 0

\* C11 as stated: the classification holds for every drift and threshold.
C11_Original == SyncClassified

\* C11, amended: for every drift and every threshold >= 0, sync_action is
\* Wait exactly when drift > threshold, Drop exactly when drift < -threshold
\* and Display otherwise, is_synced is true exactly when |drift| <= threshold,
\* a drift of +threshold or -threshold is synced and yields Display, and
\* is_synced holds if and only if sync_action is Display.
C11_SyncAction == sync_threshold_ms >= 0 => SyncClassified

\* get_sync_action was asked with the drift exactly on a threshold of 40
C11_Witness ==
  /\ op = "get_sync_action"
  /\ sync_threshold_ms = 40
  /\ drift_ms = -40
  /\ ret = Some(0)

\* ---- C12 (ClockSpec) --------------------------------------------------------
\* floor((w - anchor wall time) * frame rate / 1000) of the asked time w
FramesElapsed ==
  ((query[1] - playback_start_time[1]) * fps) \div 1000

\* C12 as stated: while the anchor is set, get_target_frame(w) returns
\* anchor frame + floor((w - anchor wall time) * frame rate / 1000) for
\* every w, wall times before the anchor included.
C12_Original ==
  op = "get_target_frame" /\ playback_start_time # None =>
    ret[1] = playback_start_frame + FramesElapsed

\* C12, amended: while the anchor is set, get_target_frame(w) returns
\* anchor frame + floor((w - anchor wall time) * frame rate / 1000) for
\* every w at or after the anchor wall time, and the anchor frame itself
\* for every w before it (frame rate > 0, result within u32).
C12_TargetFrame ==
  op = "get_target_frame" /\ playback_start_time # None =>
    ret[1] = playback_start_frame
               + (IF query[1] >= playback_start_time[1] THEN FramesElapsed
                  ELSE 0)

\* the target frame was asked for a wall time before the anchor
C12_Witness ==
  /\ op = "get_target_frame"
  /\ playback_start_time = Some(0)
  /\ playback_start_frame = 5
  /\ query = Some(-100)
  /\ ret = Some(5)

\* ---- C14 (ClockSpec) --------------------------------------------------------
\* the clock answers of a state without anchor
UnanchoredAnswers ==
  /\ \A w \in ClockTimes :
       /\ get_presentation_time_value(w)[1] = 0
       /\ get_target_frame_value(w) = recent_start
  /\ Len(frames) = 0 => get_next_decode_frame_value = recent_start
  /\ op = "get_presentation_time" => ret[1][1] = 0
  /\ op = "get_target_frame" => ret[1] = recent_start
  /\ op = "get_next_decode_frame" /\ Len(frames) = 0 => ret[1] = recent_start

\* the anchor is absent from construction and from stop_playback on, until
\* start_playback; stop_playback leaves the records, the statistics and
\* last_displayed_frame alone
StopStep ==
  /\ playback_start_time = None /\ op' # "start_playback" =>
       playback_start_time' = None
  /\ op' = "stop_playback" =>
       /\ playback_start_time' = None
       /\ frames' = frames
       /\ stats' = stats
       /\ last_displayed_frame' = last_displayed_frame

\* C14: before the first start_playback and after every stop_playback, until
\* the next start_playback, get_presentation_time returns 0 for every wall
\* time, and get_target_frame and (on an empty buffer) get_next_decode_frame
\* return the start frame of the most recent start_playback, 0 if there was
\* none; stop_playback changes neither the buffered records, the statistics
\* nor last_displayed_frame.
C14_Unanchored ==
  /\ [](op = "new" => playback_start_time = None /\ recent_start = 0)
  /\ [](playback_start_time = None => UnanchoredAnswers)
  /\ [][StopStep]_vars

\* after playback from frame 5 was stopped, with a frame displayed and the
\* buffer empty, the next frame to decode was asked
C14_Witness ==
  /\ op = "get_next_decode_frame"
  /\ playback_start_time = None
  /\ recent_start = 5
  /\ last_displayed_frame # None
  /\ Len(frames) = 0
  /\ ret = Some(5)

\* ---- C13 (StartSpec) --------------------------------------------------------
\* C13: after start_playback, the first later get_frame_for_time call whose
\* time is >= the pts of at least one buffered frame returns a frame, also
\* when the selected frame carries the frame_number displayed last before
\* the start_playback; start_playback leaves the buffered frames and all
\* statistics unchanged.
C13_FirstTakeAfterStart ==
  [][/\ AskedBuffered /\ pre_start # None => ret' # None
     /\ op' = "start_playback" => frames' = frames /\ stats' = stats]_vars

\* the first take after a start_playback returned the frame_number that was
\* displayed last before it
C13_Witness ==
  /\ op = "get_frame_for_time"
  /\ stale_first
  /\ ret # None
  /\ stats.frames_displayed = 2

\* ---- C17 (MonoSpec) ---------------------------------------------------------
\* C17: with takes at non-decreasing times and no clear or start_playback in
\* between, the pts of a returned frame is not less than the pts of the
\* frame the previous successful take returned, whatever was pushed since.
C17_PtsNeverGoesBack ==
  [][op' = "get_frame_for_time" /\ ret' # None
       /\ mono # None /\ mono[1].pts # None
     => ret'[1].pts_ms >= mono[1].pts[1]]_vars

\* ---- C15 (SyncSpec) ---------------------------------------------------------
\* one AVSync call: the threshold stays, a set call stores its sample and
\* leaves the other one, reset zeroes both, the queries change neither
SyncStep ==
  /\ sync_threshold_ms' = sync_threshold_ms
  /\ op' = "set_audio_time" =>
       audio_time_ms' = query'[1] /\ video_time_ms' = video_time_ms
  /\ op' = "set_video_time" =>
       video_time_ms' = query'[1] /\ audio_time_ms' = audio_time_ms
  /\ op' = "reset" => audio_time_ms' = 0 /\ video_time_ms' = 0
  /\ op' \in {"is_synced", "get_sync_action"} =>
       audio_time_ms' = audio_time_ms /\ video_time_ms' = video_time_ms

\* C15: in every state reachable by set_audio_time, set_video_time and reset
\* from construction, drift_ms = video_time_ms - audio_time_ms, each time
\* being the sample set last (0 if never set or since the last reset);
\* set_audio_time leaves video_time_ms unchanged, set_video_time leaves
\* audio_time_ms unchanged, and no operation changes the threshold.
C15_DriftOfSamples ==
  /\ [](drift_ms = video_time_ms - audio_time_ms)
  /\ [](op = "new" => audio_time_ms = 0 /\ video_time_ms = 0)
  /\ [][SyncStep]_vars

\* the video sample was set to 900 against an audio sample of 1000
C15_Witness ==
  /\ op = "set_video_time"
  /\ query = Some(900)
  /\ audio_time_ms = 1000
  /\ video_time_ms = 900
  /\ drift_ms = -100

\* ---- C16 (Spec) -------------------------------------------------------------
\* the handles the operation that produced this state delivered to its caller
DeliveredHandles ==
  IF op \in {"push_frame", "clear"} THEN {ret[i] : i \in 1..Len(ret)}
  ELSE IF op = "get_frame_for_time" /\ ret # None THEN {ret[1].js_handle}
  ELSE {}

\* C16: the handle of every record that leaves the buffer is delivered by
\* the operation that removed it: as push_frame's eviction result, in
\* clear's list, or in the record get_frame_for_time returns; the frames a
\* take drops are among them.
C16_RemovedDelivered ==
  [][BufferedHandles(frames) \ BufferedHandles(frames')
       \subseteq DeliveredHandles']_vars

\* ---- C18 (Spec) -------------------------------------------------------------
\* C18: the number of buffered records is at most capacity, in every
\* reachable state and for every constructed capacity.
C18_WithinCapacity == Len(frames) <= capacity

\* ---- C19 (Spec) -------------------------------------------------------------
\* C19: a Starving or Low buffer needs frames, and a buffer never both needs
\* frames and is full, in every reachable state and for every capacity.
C19_NeedsFrames ==
  /\ stats.state \in {"Starving", "Low"} => needs_frames_value
  /\ ~(needs_frames_value /\ is_full_value)

\* ---- C20 (Spec) -------------------------------------------------------------
\* the cumulative counters do not decrease, and clear leaves them alone
CounterStep ==
  /\ stats'.frames_decoded >= stats.frames_decoded
  /\ stats'.frames_displayed >= stats.frames_displayed
  /\ stats'.frames_dropped >= stats.frames_dropped
  /\ op' = "clear" =>
       /\ stats'.frames_decoded = stats.frames_decoded
       /\ stats'.frames_displayed = stats.frames_displayed
       /\ stats'.frames_dropped = stats.frames_dropped

\* C20: frames_decoded = frame_count + frames_displayed + frames_dropped +
\* the number of handles returned so far by push_frame evictions and by
\* clear; the three cumulative counters never decrease and clear leaves
\* them unchanged.
C20_FramesAccounted ==
  /\ [](stats.frames_decoded =
          stats.frame_count + stats.frames_displayed + stats.frames_dropped
            + released)
  /\ [][CounterStep]_vars

\* a clear returned a handle after a take had displayed one frame and
\* dropped another
C20_Witness ==
  /\ op = "clear"
  /\ Len(ret) > 0
  /\ released > 0
  /\ stats.frames_displayed > 0
  /\ stats.frames_dropped > 0

====
